---------------------------- MODULE Spec2Model ----------------------------
(***************************************************************************)
(* Model of the HMM model-selection strategies (my_model_selectors.py) and *)
(* of the recognizer (my_recognizer.py).                                   *)
(*                                                                         *)
(* The external HMM trainer/scorer (hmmlearn's GaussianHMM) is an oracle:  *)
(* every fit either succeeds or fails, every score call either fails or    *)
(* returns a log-likelihood out of LogLs.  The oracle's answers are the    *)
(* inputs of the actions (\E).  A Python exception is the value PyRaise;   *)
(* a try/except is the test for it.                                        *)
(*                                                                         *)
(* Floats are exact rationals [k |-> "fin", n, d] (n/d, d > 0) plus the    *)
(* IEEE values -inf, +inf and nan.  Only finite log-likelihoods are        *)
(* drawn from the oracle.                                                  *)
(***************************************************************************)
EXTENDS Integers, Sequences, FiniteSets, TLC

\* ------------------------------------------------------------- bounds
MaxStates == 2      \* n_constant, min_n_components, max_n_components in 1..MaxStates
MaxSeqs == 3        \* the word has 1..MaxSeqs training sequences
MaxOther == 2       \* the vocabulary has 0..MaxOther other words
MaxFeatures == 2    \* feature dimensionality 1..MaxFeatures
MaxLogL == 1        \* log-likelihoods are drawn from -MaxLogL..0
MaxWords == 2       \* recognizer: the word->model mapping has 0..MaxWords words
MaxItems == 2       \* recognizer: the test set has 1..MaxItems items

\* ------------------------------------------------- program constants
NumFolds == 3       \* KFold(): the splitter's default fold count (3 folds)

Strategies == {"Constant", "BIC", "DIC", "CV"}
LogLs == (0 - MaxLogL)..0

\* --------------------------------------------------- Python values
PyRaise == [k |-> "raise"]
None == [k |-> "None"]
NaN == [k |-> "nan"]
PosInf == [k |-> "pinf"]
NegInf == [k |-> "ninf"]
Fin(n, d) == [k |-> "fin", n |-> n, d |-> d]

\* a < b on floats: every comparison with nan is false
FLess(a, b) ==
    IF a.k = "nan" \/ b.k = "nan" THEN FALSE
    ELSE IF a.k = "fin" /\ b.k = "fin" THEN a.n * b.d < b.n * a.d
    ELSE IF a.k = "ninf" THEN b.k # "ninf"
    ELSE IF a.k = "pinf" THEN FALSE
    ELSE b.k = "pinf"

\* a > b on floats
FGreater(a, b) == FLess(b, a)

\* a == b as numbers (nan equals nothing)
FEq(a, b) ==
    IF a.k = "nan" \/ b.k = "nan" THEN FALSE
    ELSE IF a.k = "fin" /\ b.k = "fin" THEN a.n * b.d = b.n * a.d
    ELSE a.k = b.k

\* a + b, a - b, a * b on finite floats; nan propagates
FAdd(a, b) ==
    IF a.k = "nan" \/ b.k = "nan" THEN NaN
    ELSE Fin(a.n * b.d + b.n * a.d, a.d * b.d)

FSub(a, b) ==
    IF a.k = "nan" \/ b.k = "nan" THEN NaN
    ELSE Fin(a.n * b.d - b.n * a.d, a.d * b.d)

FMul(a, b) ==
    IF a.k = "nan" \/ b.k = "nan" THEN NaN
    ELSE Fin(a.n * b.n, a.d * b.d)

RECURSIVE SumSeq(_)
SumSeq(s) == IF s = <<>> THEN 0 ELSE Head(s) + SumSeq(Tail(s))

\* np.mean of a list of numbers: nan for the empty list (a warning, no exception)
np_mean(s) == IF Len(s) = 0 THEN NaN ELSE Fin(SumSeq(s), Len(s))

\* math.log(n), to one decimal; ValueError for n <= 0
math_log(n) ==
    IF n <= 0 THEN PyRaise
    ELSE Fin(CASE n = 1 -> 0 [] n = 2 -> 7 [] n = 3 -> 11 [] n = 4 -> 14
               [] n = 5 -> 16 [] n = 6 -> 18 [] n = 7 -> 19 [] OTHER -> 21, 10)

\* ------------------------------------------------ the oracle's answers
ScoreFailure == [ok |-> FALSE, v |-> 0]
ScoreOutcomes == {ScoreFailure} \cup {[ok |-> TRUE, v |-> l] : l \in LogLs}

\* What the score calls on the result of a fit give: whatever the scorer
\* answers on a fitted model, failure on None
ScoresOf(fitOK) == IF fitOK THEN ScoreOutcomes ELSE {ScoreFailure}

\* What one fit followed by one score gives: the fit fails, or the score fails,
\* or the score returns a log-likelihood
FitScoreOutcomes ==
    {[fit |-> FALSE, sc |-> ScoreFailure]} \cup {[fit |-> TRUE, sc |-> s] : s \in ScoreOutcomes}

Succeeds(o) == o.fit /\ o.sc.ok

\* -------------------------------------------------- the word's data
\* Sequence i (0-based) of the word has SeqLen(i) frames; frame j of it is <<i, j>>.
SeqLen(i) == 1 + (i % 2)
Frames(i) == [j \in 1..SeqLen(i) |-> <<i, j>>]

RECURSIVE ConcatFrames(_)
ConcatFrames(index) ==
    IF index = <<>> THEN <<>> ELSE Frames(Head(index)) \o ConcatFrames(Tail(index))

\* combine_sequences(index, sequences): the chosen sequences concatenated,
\* and their lengths
combine_sequences(index) ==
    [X |-> ConcatFrames(index), lengths |-> [t \in 1..Len(index) |-> SeqLen(index[t])]]

\* all_word_Xlengths[this_word] for a word of n sequences
FullData(n) == combine_sequences([i \in 1..n |-> i - 1])

\* KFold(n_splits = NumFolds, shuffle = False).split over n samples: fold f's
\* test indices are a contiguous block, the first n % NumFolds folds one longer
FoldSize(n, f) == (n \div NumFolds) + (IF f <= n % NumFolds THEN 1 ELSE 0)

RECURSIVE FoldStart(_, _)
FoldStart(n, f) == IF f <= 1 THEN 0 ELSE FoldStart(n, f - 1) + FoldSize(n, f - 1)

TestIndex(n, f) == [i \in 1..FoldSize(n, f) |-> FoldStart(n, f) + i - 1]

TrainIndex(n, f) ==
    SelectSeq([i \in 1..n |-> i - 1],
              LAMBDA i : i < FoldStart(n, f) \/ i >= FoldStart(n, f) + FoldSize(n, f))

\* ------------------------------------------------------------ state
VARIABLES
    strategy,               \* which ModelSelector subclass this instance is
    n_constant,             \* self.n_constant
    min_n_components,       \* self.min_n_components
    max_n_components,       \* self.max_n_components
    nseq,                   \* len(self.sequences)
    n_features,             \* feature dimensionality of the word's data
    nother,                 \* number of words of self.words other than this_word
    X,                      \* self.X
    lengths,                \* self.lengths
    pc,                     \* "select" | "done" | "raised" | "idle"
    num,                    \* the loop variable of select()
    best_num_components,    \* select()'s local
    best_score,             \* min_score (BIC) / max_score (DIC) / max_avg (CV)
    log_likelihoods,        \* SelectorCV.select's running list
    result,                 \* what select() returned
    final_num,              \* num_states of the base_model call of the return statement
    nsplits,                \* number of kf.split calls made
    hist,                   \* SelectorBIC: per candidate visited, [num, ok, score]
    last,                   \* the oracle's answers and the calls of the last candidate
    models,                 \* recognize(): the word->model mapping, in iteration order
    nitems,                 \* recognize(): number of test items
    item,                   \* recognize(): index of the next test item
    probabilities,          \* recognize(): list of ScoreTables
    guesses,                \* recognize(): list of guesses
    rlog,                   \* recognize(): the oracle's answers, per item handled
    rpc                     \* "recognize" | "done" | "raised" | "idle"

selvars == <<strategy, n_constant, min_n_components, max_n_components, nseq, n_features,
             nother, X, lengths, pc, num, best_num_components, best_score,
             log_likelihoods, result, final_num, nsplits, hist, last>>
recvars == <<models, nitems, item, probabilities, guesses, rlog, rpc>>
vars == <<selvars, recvars>>

\* ------------------------------------------------- ModelSelector
\* ModelSelector.__init__ followed by the first statements of select()
InitSelector ==
    /\ strategy \in Strategies
    /\ n_constant \in 1..MaxStates
    /\ min_n_components \in 1..MaxStates
    /\ max_n_components \in 1..MaxStates
    /\ nseq \in (IF strategy \in {"BIC", "CV"} THEN 1..MaxSeqs ELSE {1})
    /\ n_features \in (IF strategy = "BIC" THEN 1..MaxFeatures ELSE {1})
    /\ nother \in (IF strategy = "DIC" THEN 0..MaxOther ELSE {1})
    /\ X = FullData(nseq).X
    /\ lengths = FullData(nseq).lengths
    /\ pc = "select"
    /\ num = min_n_components
    /\ best_num_components = n_constant
    /\ best_score = (IF strategy = "BIC" THEN PosInf ELSE NegInf)
    /\ log_likelihoods = <<>>
    /\ result = None
    /\ final_num = 0
    /\ nsplits = 0
    /\ hist = <<>>
    /\ last = [num |-> 0]

\* A fitted GaussianHMM: its n_components, n_features and the data it was fitted on
Model(num_states, sX, sLengths) ==
    [k |-> "model", n_components |-> num_states, n_features |-> n_features,
     X |-> sX, lengths |-> sLengths]

\* base_model without its except clause: the fitter's failure propagates
base_model_uncaught(num_states, fitOK, sX, sLengths) ==
    IF fitOK THEN Model(num_states, sX, sLengths) ELSE PyRaise

\* ModelSelector.base_model with self.X = sX, self.lengths = sLengths: the
\* fitter's failure is caught and None returned
base_model(num_states, fitOK, sX, sLengths) ==
    IF fitOK THEN Model(num_states, sX, sLengths) ELSE None

\* model.score(...): AttributeError on None, the oracle's answer otherwise
model_score(model, sc) ==
    IF model.k # "model" THEN PyRaise
    ELSE IF ~sc.ok THEN PyRaise
    ELSE Fin(sc.v, 1)

\* the range one candidate too long
CandidateRangeOneMore == min_n_components..(max_n_components + 1)

\* range(self.min_n_components, self.max_n_components + 1)
CandidateRange == min_n_components..max_n_components

\* return self.base_model(best_num_components)
ReturnBaseModel(k) ==
    \E fitOK \in BOOLEAN :
        LET m == base_model(k, fitOK, X, lengths) IN
        /\ final_num' = k
        /\ IF m.k = "raise"
           THEN pc' = "raised" /\ result' = result
           ELSE pc' = "done" /\ result' = m

\* ------------------------------------------------- SelectorConstant
SelectConstant ==
    /\ pc = "select" /\ strategy = "Constant"
    /\ ReturnBaseModel(n_constant)
    /\ UNCHANGED <<strategy, n_constant, min_n_components, max_n_components, nseq,
                   n_features, nother, X, lengths, num, best_num_components, best_score,
                   log_likelihoods, nsplits, hist, last, recvars>>

\* ------------------------------------------------- SelectorBIC
score_BIC(num_states, fitOK, sc) ==
    LET model == base_model(num_states, fitOK, X, lengths)
        logL == model_score(model, sc)
    IN  IF model.k = "raise" \/ logL.k = "raise" THEN PyRaise
        ELSE LET p == (model.n_components * model.n_components)
                      + 2 * model.n_components * model.n_features
                 logN == math_log(nseq)
             IN  IF logN.k = "raise" THEN PyRaise
                 ELSE FAdd(FMul(Fin(-2, 1), logL), FMul(Fin(p, 1), logN))

\* the comparison with <= for <
BICImprovesOrTies(score, min_score) == FLess(score, min_score) \/ FEq(score, min_score)

\* if score < min_score
BICImproves(score, min_score) == FLess(score, min_score)

\* one iteration of SelectorBIC.select's loop
StepBIC ==
    /\ pc = "select" /\ strategy = "BIC" /\ num \in CandidateRange
    /\ \E fitOK \in BOOLEAN : \E sc \in ScoresOf(fitOK) :
      \E score \in {score_BIC(num, fitOK, sc)} :
        LET caught == score.k = "raise"
            better == ~caught /\ BICImproves(score, best_score)
        IN  /\ best_score' = IF better THEN score ELSE best_score
            /\ best_num_components' = IF better THEN num ELSE best_num_components
            /\ hist' = Append(hist, [num |-> num, ok |-> ~caught, score |-> score])
            /\ last' = [num |-> num, fitOK |-> fitOK, tgt |-> sc, score |-> score,
                        prev_best |-> best_score, prev_k |-> best_num_components]
    /\ num' = num + 1
    /\ UNCHANGED <<strategy, n_constant, min_n_components, max_n_components, nseq,
                   n_features, nother, X, lengths, pc, log_likelihoods, result,
                   final_num, nsplits, recvars>>

\* ------------------------------------------------- SelectorDIC
\* the values of the list comprehension over other_words, PyRaise if a score raises
AntiLogLikelihoods(model, anti) ==
    IF \E w \in 1..nother : model_score(model, anti[w]).k = "raise" THEN PyRaise
    ELSE [k |-> "list", v |-> [w \in 1..nother |-> anti[w].v]]

\* score_DIC with a try/except around each other word's score: the mean is
\* taken over the other words that scored
score_DIC_skipping(num_states, fitOK, anti, tgt) ==
    LET model == base_model(num_states, fitOK, X, lengths)
        scored == SelectSeq([w \in 1..nother |-> anti[w]],
                            LAMBDA o : model_score(model, o).k # "raise")
        logL == model_score(model, tgt)
    IN  IF model.k = "raise" \/ logL.k = "raise" THEN PyRaise
        ELSE FSub(logL, np_mean([i \in 1..Len(scored) |-> scored[i].v]))

score_DIC(num_states, fitOK, anti, tgt) ==
    LET model == base_model(num_states, fitOK, X, lengths)
        anti_log_likelihoods == AntiLogLikelihoods(model, anti)
        logL == model_score(model, tgt)
    IN  IF model.k = "raise" \/ anti_log_likelihoods.k = "raise" \/ logL.k = "raise"
        THEN PyRaise
        ELSE FSub(logL, np_mean(anti_log_likelihoods.v))

\* if score > max_score
DICImproves(score, max_score) == FGreater(score, max_score)

\* one iteration of SelectorDIC.select's loop
StepDIC ==
    /\ pc = "select" /\ strategy = "DIC" /\ num \in CandidateRange
    /\ \E fitOK \in BOOLEAN :
      \E anti \in [1..nother -> ScoresOf(fitOK)], tgt \in ScoresOf(fitOK) :
      \E score \in {score_DIC(num, fitOK, anti, tgt)} :
        LET caught == score.k = "raise"
            better == ~caught /\ DICImproves(score, best_score)
        IN  /\ best_score' = IF better THEN score ELSE best_score
            /\ best_num_components' = IF better THEN num ELSE best_num_components
            /\ last' = [num |-> num, fitOK |-> fitOK, anti |-> anti, tgt |-> tgt,
                        score |-> score, prev_best |-> best_score,
                        prev_k |-> best_num_components]
    /\ num' = num + 1
    /\ UNCHANGED <<strategy, n_constant, min_n_components, max_n_components, nseq,
                   n_features, nother, X, lengths, pc, log_likelihoods, result,
                   final_num, nsplits, hist, recvars>>

\* ------------------------------------------------- SelectorCV
\* the threshold one too low
UsesFoldsFromTwo(n) == n > 1

\* if len(self.sequences) > 2
UsesFolds(n) == n > 2

\* The body of cv_score's for loop from fold f on.  st carries self.X,
\* self.lengths, the local log_likelihood (ll) and the fit/score calls made.
RECURSIVE cv_folds(_, _, _, _)
cv_folds(f, num_states, run, st) ==
    IF f > NumFolds THEN st
    ELSE LET train == combine_sequences(TrainIndex(nseq, f))
             test == combine_sequences(TestIndex(nseq, f))
             model == base_model(num_states, run[f].fit, train.X, train.lengths)
             log_likelihood == model_score(model, run[f].sc)
             call == [fit_X |-> train.X, fit_lengths |-> train.lengths,
                      fitted |-> model.k = "model",
                      score_X |-> test.X, score_lengths |-> test.lengths,
                      ll |-> log_likelihood]
             st1 == [st EXCEPT !.X = train.X, !.lengths = train.lengths,
                               !.calls = Append(st.calls, call)]
         IN  IF model.k = "raise" \/ log_likelihood.k = "raise"
             THEN [st1 EXCEPT !.ll = PyRaise]
             ELSE cv_folds(f + 1, num_states, run, [st1 EXCEPT !.ll = log_likelihood])

\* cv_score(num_states): [X, lengths] are self.X, self.lengths when it ends,
\* ll is the value returned (PyRaise if it raised), split says whether kf.split ran
cv_score(num_states, run) ==
    LET st0 == [X |-> X, lengths |-> lengths, ll |-> PyRaise, calls |-> <<>>,
                split |-> FALSE]
    IN  IF UsesFolds(nseq)
        THEN IF nseq < NumFolds
             THEN [st0 EXCEPT !.split = TRUE]
             ELSE cv_folds(1, num_states, run, [st0 EXCEPT !.split = TRUE])
        ELSE LET model == base_model(num_states, run[1].fit, X, lengths)
                 log_likelihood == model_score(model, run[1].sc)
                 call == [fit_X |-> X, fit_lengths |-> lengths,
                          fitted |-> model.k = "model",
                          score_X |-> X, score_lengths |-> lengths,
                          ll |-> log_likelihood]
             IN  [st0 EXCEPT !.ll = IF model.k = "raise" THEN PyRaise ELSE log_likelihood,
                             !.calls = <<call>>]

\* The oracle's answers to the fit and score calls of one cv_score call, in call
\* order: a run over the folds ends with the first fold that fails (the
\* exception leaves the loop), a word too short to split makes one fit and score
FoldRuns ==
    {run \in UNION {[1..n -> FitScoreOutcomes] : n \in 1..NumFolds} :
        /\ \A f \in 1..(Len(run) - 1) : Succeeds(run[f])
        /\ Len(run) < NumFolds => ~Succeeds(run[Len(run)])}

SingleRuns == [1..1 -> FitScoreOutcomes]

\* the list reset for every candidate
ResetAndAppend(list, ll) == <<ll.n>>

\* log_likelihoods.append(cv_score(num))
AppendScore(list, ll) == Append(list, ll.n)

\* if cv_score_avg > max_avg
CVImproves(avg, max_avg) == FGreater(avg, max_avg)

\* one iteration of SelectorCV.select's loop
StepCV ==
    /\ pc = "select" /\ strategy = "CV" /\ num \in CandidateRange
    /\ \E run \in (IF nseq >= NumFolds THEN FoldRuns ELSE SingleRuns) :
      \E r \in {cv_score(num, run)} :
        LET caught == r.ll.k = "raise"
            list == IF caught THEN log_likelihoods ELSE AppendScore(log_likelihoods, r.ll)
            cv_score_avg == np_mean(list)
            better == ~caught /\ CVImproves(cv_score_avg, best_score)
        IN  /\ X' = r.X
            /\ lengths' = r.lengths
            /\ nsplits' = nsplits + (IF r.split THEN 1 ELSE 0)
            /\ log_likelihoods' = list
            /\ best_score' = IF better THEN cv_score_avg ELSE best_score
            /\ best_num_components' = IF better THEN num ELSE best_num_components
            /\ last' = [num |-> num, calls |-> r.calls, ll |-> r.ll,
                        prev_len |-> Len(log_likelihoods), prev_list |-> log_likelihoods,
                        prev_best |-> best_score, prev_k |-> best_num_components]
    /\ num' = num + 1
    /\ UNCHANGED <<strategy, n_constant, min_n_components, max_n_components, nseq,
                   n_features, nother, pc, result, final_num, hist, recvars>>

\* the return statement of SelectorBIC / SelectorDIC / SelectorCV . select
SelectReturn ==
    /\ pc = "select" /\ strategy # "Constant" /\ num \notin CandidateRange
    /\ ReturnBaseModel(best_num_components)
    /\ UNCHANGED <<strategy, n_constant, min_n_components, max_n_components, nseq,
                   n_features, nother, X, lengths, num, best_num_components, best_score,
                   log_likelihoods, nsplits, hist, last, recvars>>

\* ------------------------------------------------- recognize()
\* a fitted model of the word->model mapping
TrainedModel == [k |-> "model"]

\* the arguments of recognize(): the mapping's words are 1..Len(models) in
\* iteration order, each with a model or None; the test set has nitems items
InitRecognizer ==
    /\ models \in UNION {[1..n -> {None, TrainedModel}] : n \in 0..MaxWords}
    /\ nitems \in 0..MaxItems
    /\ item = 1
    /\ probabilities = <<>>
    /\ guesses = <<>>
    /\ rlog = <<>>
    /\ rpc = "recognize"

\* the inner loop over models: probs_dict after the words from w on, as the
\* list of its (word, value) entries in insertion order
RECURSIVE probs_from(_, _, _)
probs_from(w, sc, probs_dict) ==
    IF w > Len(models) THEN probs_dict
    ELSE LET ll == model_score(models[w], sc[w])
         IN  IF ll.k = "raise"
             THEN probs_from(w + 1, sc, probs_dict)
             ELSE probs_from(w + 1, sc, Append(probs_dict, [w |-> w, v |-> ll.n]))

\* replaces the running maximum of max(): only a strictly greater key
MaxReplaces(v, best_v) == v > best_v

\* max(probs_dict, key=probs_dict.get) from entry i on, best being the maximum so far
RECURSIVE max_from(_, _, _)
max_from(probs_dict, i, best) ==
    IF i > Len(probs_dict) THEN best.w
    ELSE max_from(probs_dict, i + 1,
                  IF MaxReplaces(probs_dict[i].v, best.v) THEN probs_dict[i] ELSE best)

\* max(probs_dict, key=probs_dict.get): ValueError on an empty dict
py_max(probs_dict) ==
    IF probs_dict = <<>> THEN PyRaise
    ELSE [k |-> "word", w |-> max_from(probs_dict, 2, probs_dict[1])]

\* one iteration of the loop over the test items
RecognizeItem ==
    /\ rpc = "recognize" /\ item <= nitems
    /\ \E sc \in [1..Len(models) -> ScoreOutcomes] :
        LET probs_dict == probs_from(1, sc, <<>>)
            guess == py_max(probs_dict)
        IN  /\ rlog' = Append(rlog, sc)
            /\ IF guess.k = "raise"
               THEN /\ rpc' = "raised"
                    /\ UNCHANGED <<guesses, probabilities, item>>
               ELSE /\ guesses' = Append(guesses, guess.w)
                    /\ probabilities' = Append(probabilities, probs_dict)
                    /\ item' = item + 1
                    /\ rpc' = rpc
    /\ UNCHANGED <<models, nitems, selvars>>

\* return probabilities, guesses
RecognizeReturn ==
    /\ rpc = "recognize" /\ item > nitems
    /\ rpc' = "done"
    /\ UNCHANGED <<models, nitems, item, probabilities, guesses, rlog, selvars>>

\* ------------------------------------------------- specifications
RecIdle ==
    /\ models = <<>> /\ nitems = 0 /\ item = 1 /\ probabilities = <<>>
    /\ guesses = <<>> /\ rlog = <<>> /\ rpc = "idle"

SelIdle ==
    /\ strategy = "Constant" /\ n_constant = 1 /\ min_n_components = 1
    /\ max_n_components = 1 /\ nseq = 1 /\ n_features = 1 /\ nother = 0
    /\ X = <<>> /\ lengths = <<>> /\ pc = "idle" /\ num = 1
    /\ best_num_components = 1 /\ best_score = NegInf /\ log_likelihoods = <<>>
    /\ result = None /\ final_num = 0 /\ nsplits = 0 /\ hist = <<>>
    /\ last = [num |-> 0]

\* one select() call of a selector of any of the four strategies
Init == InitSelector /\ RecIdle

Next == SelectConstant \/ StepBIC \/ StepDIC \/ StepCV \/ SelectReturn

Spec == Init /\ [][Next]_vars

\* one SelectorBIC.select() call
InitBIC == Init /\ strategy = "BIC"

NextBIC == StepBIC \/ SelectReturn

SpecBIC == InitBIC /\ [][NextBIC]_vars

\* one SelectorDIC.select() call
InitDIC == Init /\ strategy = "DIC"

NextDIC == StepDIC \/ SelectReturn

SpecDIC == InitDIC /\ [][NextDIC]_vars

\* one SelectorCV.select() call
InitCV == Init /\ strategy = "CV"

NextCV == StepCV \/ SelectReturn

SpecCV == InitCV /\ [][NextCV]_vars

\* one recognize() call
InitRec == SelIdle /\ InitRecognizer

NextRec == RecognizeItem \/ RecognizeReturn

SpecRec == InitRec /\ [][NextRec]_vars


\* ------------------------------------------------------------ claims
Full == FullData(nseq)

\* C1: for every strategy and every pattern of fit and score failures (every
\* fit failing and the empty range included) select() terminates and returns a
\* fitted model or None; no failure propagates out of select() or base_model().
C1_SelectNeverRaises ==
    /\ pc \in {"select", "done"}
    /\ pc = "done" => result.k \in {"model", "None"}
    /\ pc = "select" => ENABLED Next
    /\ pc = "select" /\ strategy # "Constant" =>
          num <= (IF min_n_components > max_n_components
                  THEN min_n_components ELSE max_n_components + 1)

\* C1 witness: select() has returned None after a search in which the fit of
\* every candidate failed and the fallback fit failed too.
C1_Witness ==
    /\ pc = "done" /\ result.k = "None" /\ strategy = "BIC"
    /\ Len(hist) = max_n_components - min_n_components + 1 /\ Len(hist) >= 2
    /\ \A i \in 1..Len(hist) : ~hist[i].ok

\* C2 (as stated): whenever select() returns a non-null model, its number of
\* states k satisfies min_n_components <= k <= max_n_components.
C2_Original ==
    (pc = "done" /\ result.k = "model") =>
        (min_n_components <= result.n_components
         /\ result.n_components <= max_n_components)

\* C2 (amended): whenever select() returns a non-null model, its number of
\* states k is n_constant for SelectorConstant, and for the other strategies
\* lies within [min_n_components, max_n_components] or is the fallback
\* n_constant, the latter only when no candidate was ever taken as best.
C2_InRangeOrFallback ==
    (pc = "done" /\ result.k = "model") =>
        /\ strategy = "Constant" => result.n_components = n_constant
        /\ \/ (min_n_components <= result.n_components
               /\ result.n_components <= max_n_components)
           \/ (result.n_components = n_constant
               /\ (strategy # "Constant" => best_score.k \in {"pinf", "ninf"}))

\* C2 witness: a search strategy has returned a model whose number of states,
\* the fallback, lies outside the search interval.
C2_Witness ==
    /\ pc = "done" /\ result.k = "model" /\ strategy = "CV"
    /\ min_n_components <= max_n_components
    /\ result.n_components > max_n_components

\* the state count SelectorBIC must end with, given the candidates visited so
\* far: the first candidate whose BIC is the minimum over those that fitted and
\* scored, the fallback when there is none
BICFirstMinimum ==
    LET ok == {i \in 1..Len(hist) : hist[i].ok}
    IN  IF ok = {} THEN n_constant
        ELSE hist[CHOOSE i \in ok :
                    /\ \A j \in ok : ~FLess(hist[j].score, hist[i].score)
                    /\ \A j \in ok : j < i => FLess(hist[i].score, hist[j].score)].num

\* C3: SelectorBIC.select() requests the final fit base_model(best_k), best_k
\* the smallest k of the range whose BIC = -2*L + p*ln(N), p = k^2 + 2*k*F, is
\* the minimum over the candidates that fitted and scored: candidates are
\* visited in ascending order, a tie never replaces an earlier candidate, failed
\* candidates are left out, and with no success best_k is n_constant.
C3_BICFirstMinimum ==
    /\ \A i \in 1..Len(hist) : hist[i].num = min_n_components + i - 1
    /\ best_num_components = BICFirstMinimum
    /\ pc = "done" =>
          /\ final_num = BICFirstMinimum
          /\ Len(hist) = (IF max_n_components < min_n_components THEN 0
                          ELSE max_n_components - min_n_components + 1)
    /\ last.num > 0 =>
          /\ hist[Len(hist)].ok = (last.fitOK /\ last.tgt.ok)
          /\ hist[Len(hist)].ok =>
                FEq(last.score,
                    Fin(-20 * last.tgt.v
                        + (last.num * last.num + 2 * last.num * n_features)
                          * math_log(nseq).n, 10))

\* C3 witness: two candidates had the same BIC and the final fit was requested
\* for the lower one.
C3_Witness ==
    /\ pc = "done" /\ Len(hist) = 2 /\ hist[1].ok /\ hist[2].ok
    /\ FEq(hist[1].score, hist[2].score)
    /\ final_num = hist[1].num /\ final_num # n_constant

\* C5: in SelectorCV.select() a word with 2 or fewer training sequences is never
\* split into folds: each candidate is fitted once on the word's full data and
\* scored against that same data, (X, lengths) are never overwritten, and
\* select() returns a model or None without raising.
C5_NoFoldsForShortWords ==
    (strategy = "CV" /\ nseq <= 2) =>
        /\ nsplits = 0
        /\ X = Full.X /\ lengths = Full.lengths
        /\ pc # "raised"
        /\ pc = "done" => result.k \in {"model", "None"}
        /\ last.num > 0 =>
              /\ Len(last.calls) = 1
              /\ last.calls[1].fit_X = Full.X
              /\ last.calls[1].fit_lengths = Full.lengths
              /\ last.calls[1].score_X = Full.X
              /\ last.calls[1].score_lengths = Full.lengths

\* C5 witness: SelectorCV has returned a model for a word with one training
\* sequence after a candidate was fitted and scored.
C5_Witness ==
    /\ strategy = "CV" /\ nseq = 1 /\ pc = "done" /\ result.k = "model"
    /\ last.num > 0 /\ last.ll.k = "fin"

\* the last candidate of SelectorDIC fitted and scored the target word while
\* some, but not all, of the other words failed to score
PartialOtherFailure ==
    /\ strategy = "DIC" /\ last.num > 0
    /\ last.fitOK /\ last.tgt.ok
    /\ \E w \in 1..nother : ~last.anti[w].ok
    /\ \E w \in 1..nother : last.anti[w].ok

\* C7 (as stated): in SelectorDIC.select() a candidate that fits and scores the
\* target word while scoring some but not all other words fails is not
\* discarded: its DIC is L_target minus the mean of the other-word
\* log-likelihoods that did score, and it takes part in the maximum comparison.
C7_Original ==
    PartialOtherFailure =>
        LET scored == SelectSeq([w \in 1..nother |-> last.anti[w]], LAMBDA o : o.ok)
            dic == Fin(Len(scored) * last.tgt.v
                       - SumSeq([i \in 1..Len(scored) |-> scored[i].v]), Len(scored))
        IN  /\ last.score.k = "fin"
            /\ FEq(last.score, dic)
            /\ FGreater(dic, last.prev_best) =>
                  best_num_components = last.num /\ best_score = last.score

\* C7 (amended): in SelectorDIC.select() a candidate is discarded as soon as its
\* fit, its score of the target word or its score of any one other word fails,
\* so also when only some of the other words fail: then no DIC score is
\* computed and the best candidate so far stays.  Only when every call
\* succeeds is its DIC L_target minus the mean over all other words (nan when
\* there is no other word), and it takes part in the maximum comparison.
C7_AnyFailureDiscards ==
    (strategy = "DIC" /\ last.num > 0) =>
        LET complete == /\ last.fitOK /\ last.tgt.ok
                        /\ \A w \in 1..nother : last.anti[w].ok
            improves == FGreater(last.score, last.prev_best)
        IN  /\ (last.score.k = "raise") = ~complete
            /\ complete /\ nother = 0 => last.score.k = "nan"
            /\ complete /\ nother > 0 =>
                  FEq(last.score,
                      Fin(nother * last.tgt.v
                          - SumSeq([w \in 1..nother |-> last.anti[w].v]), nother))
            /\ complete /\ improves =>
                  best_num_components = last.num /\ best_score = last.score
            /\ ~(complete /\ improves) =>
                  best_num_components = last.prev_k /\ best_score = last.prev_best

\* C7 witness: a candidate that fitted and scored the target word, with one
\* other word scoring and one failing, was discarded.
C7_Witness ==
    /\ PartialOtherFailure /\ last.score.k = "raise"
    /\ best_num_components = last.prev_k

\* the last candidate of SelectorCV had all its folds fit and score
AllFoldsSucceeded ==
    /\ strategy = "CV" /\ last.num > 0 /\ nseq > 2
    /\ last.ll.k = "fin"

\* C8: in SelectorCV.select(), for a word with more than 2 sequences, after a
\* candidate whose folds all fit and score the running list has grown by the
\* number of folds, one entry per fold: that fold's held-out log-likelihood.
C8_Original ==
    AllFoldsSucceeded =>
        /\ Len(last.calls) = NumFolds
        /\ Len(log_likelihoods) = last.prev_len + NumFolds
        /\ \A f \in 1..NumFolds :
              log_likelihoods[last.prev_len + f] = last.calls[f].ll.n

\* C9: SelectorCV's overwrite of (X, lengths) is temporary: the final
\* base_model(best_k) is fitted on the word's full data and after select()
\* returns (X, lengths) are what they were at construction; the other
\* strategies never change (X, lengths).
C9_Original ==
    /\ strategy # "CV" => (X = Full.X /\ lengths = Full.lengths)
    /\ pc = "done" =>
          /\ X = Full.X /\ lengths = Full.lengths
          /\ result.k = "model" => (result.X = Full.X /\ result.lengths = Full.lengths)

\* C10: SelectorCV's running list is never reset between candidates: a
\* successful candidate k extends it, the mean of the whole list is computed and
\* best_k becomes k exactly when that mean is strictly greater than the best
\* mean so far; a failed candidate adds nothing and cannot become best_k; the
\* first successful candidate always becomes best_k, and with no success best_k
\* stays n_constant.
C10_RunningMean ==
    /\ (strategy = "CV" /\ last.num = 0) =>
          (log_likelihoods = <<>> /\ best_num_components = n_constant)
    /\ (strategy = "CV" /\ log_likelihoods = <<>>) => best_num_components = n_constant
    /\ (strategy = "CV" /\ last.num > 0) =>
          LET n == Len(log_likelihoods)
              avg == Fin(SumSeq(log_likelihoods), n)
              improves == FGreater(avg, last.prev_best)
          IN  IF last.ll.k = "raise"
              THEN /\ log_likelihoods = last.prev_list
                   /\ best_num_components = last.prev_k
                   /\ best_score = last.prev_best
              ELSE /\ n > last.prev_len
                   /\ SubSeq(log_likelihoods, 1, last.prev_len) = last.prev_list
                   /\ improves => (best_num_components = last.num /\ FEq(best_score, avg))
                   /\ ~improves => (best_num_components = last.prev_k
                                    /\ best_score = last.prev_best)
                   /\ last.prev_list = <<>> => best_num_components = last.num

\* C10 witness: the second successful candidate became best_k because the mean
\* over both candidates' entries exceeded the first candidate's mean.
C10_Witness ==
    /\ strategy = "CV" /\ last.num > 0 /\ last.ll.k = "fin"
    /\ Len(log_likelihoods) = 2 /\ last.prev_len = 1
    /\ log_likelihoods[1] < log_likelihoods[2]
    /\ best_num_components = last.num
    /\ FEq(best_score, Fin(log_likelihoods[1] + log_likelihoods[2], 2))

\* the table item i must get: the words, in the mapping's order, whose model is
\* not None and scored the item
ExpectedTable(sc) ==
    SelectSeq([w \in 1..Len(models) |-> [w |-> w, v |-> sc[w].v]],
              LAMBDA e : models[e.w].k = "model" /\ sc[e.w].ok)

\* guess is the first word of the table with the maximum log-likelihood
IsFirstArgMax(table, guess) ==
    \E i \in 1..Len(table) :
        /\ table[i].w = guess
        /\ \A j \in 1..Len(table) : table[j].v <= table[i].v
        /\ \A j \in 1..(i - 1) : table[j].v < table[i].v

\* C4: a test item for which every word's model fails to score (its table is
\* empty) is handled without an uncaught failure: recognize() still returns.
C4_Original ==
    (rlog # <<>> /\ ExpectedTable(rlog[Len(rlog)]) = <<>>) => rpc # "raised"

\* C6: recognize() returns two parallel lists with one entry per test item, in
\* the test set's order: the i-th table holds exactly the words whose model
\* scored item i, and where that table is not empty the i-th guess is its first
\* word with the maximum log-likelihood.
C6_Original ==
    rpc \in {"done", "raised"} =>
        /\ rpc = "done"
        /\ Len(probabilities) = nitems /\ Len(guesses) = nitems
        /\ \A i \in 1..nitems :
              /\ probabilities[i] = ExpectedTable(rlog[i])
              /\ probabilities[i] # <<>> => IsFirstArgMax(probabilities[i], guesses[i])

\* C6, on the calls that return: the lists are parallel, one entry per item,
\* each table the expected one and each guess its first maximum.
C6_WhenReturned ==
    rpc = "done" =>
        /\ Len(probabilities) = nitems /\ Len(guesses) = nitems
        /\ \A i \in 1..nitems :
              /\ probabilities[i] = ExpectedTable(rlog[i])
              /\ IsFirstArgMax(probabilities[i], guesses[i])

=============================================================================
